---- MODULE Spec2Model ----
(***************************************************************************)
(* Model of the multi-format document pipeline:                            *)
(*   main.py          upload_file, action_router, read_memory              *)
(*   classifier.py    classify_format, classify_intent                     *)
(*   email_agent.py   process_email                                        *)
(*   json_agent.py    parse_json, validate, post_with_retries,             *)
(*                    process_json                                         *)
(*   process_pdf.py   process_pdf(text, filepath), the agent whose         *)
(*                    signature matches the call in main.py                *)
(*   pdf_agent.py     process_pdf(filepath) and its __main__               *)
(*   action_router.py route_action                                         *)
(*   memory.py        init_db, insert_agent_trace, get_all_records         *)
(*                                                                         *)
(*   json_agent.py    the command-line entry point (__main__)              *)
(*                                                                         *)
(* A server process serves one upload at a time (upload_file makes only    *)
(* blocking calls after its first await).  Server processes and runs of    *)
(* json_agent.py from the command line share the SQLite file memory.db.    *)
(***************************************************************************)
EXTENDS Integers, Sequences, FiniteSets, TLC

\* ------------------------------------------------------------------------
\* Bounds of the model
\* ------------------------------------------------------------------------
NumWriters == 2    \* processes running  python json_agent.py <file>
MaxUploads == 2    \* POST /upload requests accepted
MaxCliRuns == 2    \* runs of json_agent.py started
MaxLimit == 2      \* largest limit passed to GET /memory

\* the FastAPI application is one process with one event loop; the runs of
\* json_agent.py are processes of their own
Servers == {0}
Writers == 1..NumWriters
Procs == Servers \cup Writers

\* ------------------------------------------------------------------------
\* Program constants
\* ------------------------------------------------------------------------
MAX_RETRIES == 3
REQUEST_TIMEOUT == 4
RISK_THRESHOLD == 10000

\* ------------------------------------------------------------------------
\* Documents.  A text is modelled by the set of (lower-cased) keywords that
\* occur in it; the structured content of a JSON or PDF file is carried next
\* to it.
\*   json : kind "malformed" (json.loads raises), or kind "object" with
\*          data, a function from field names to [t |-> type name, v |-> value],
\*          or kind "array" (a JSON list, here one without the string
\*          "status" among its elements), or kind "scalar" (null, a number,
\*          true, false)
\*   pdf  : readable  - pdfplumber.open and the text extraction succeed (in
\*                      upload_file; in pdf_agent.py)
\*          blank     - every page gives no text (a scanned document)
\*          total     - the amount the "total" regex finds, 0 when no match
\*          items     - the line items of the tables
\*          reopen    - the table pass succeeds (the second pdfplumber.open
\*                      and _extract_line_items of process_pdf.py;
\*                      _extract_tables of pdf_agent.py)
\* ------------------------------------------------------------------------
NoJson == [kind |-> "none", data |-> [f \in {} |-> 0]]
Malformed == [kind |-> "malformed", data |-> [f \in {} |-> 0]]
Object(data) == [kind |-> "object", data |-> data]
Array == [kind |-> "array", data |-> [f \in {} |-> 0]]
Scalar == [kind |-> "scalar", data |-> [f \in {} |-> 0]]
Pdf(readable, blank, total, items, reopen) ==
  [readable |-> readable, blank |-> blank, total |-> total, items |-> items,
   reopen |-> reopen]

NoPdf == Pdf(TRUE, FALSE, 0, <<>>, TRUE)

Field(t, v) == [t |-> t, v |-> v]

GoodObject ==
  [f \in {"id", "timestamp", "status"} |->
     IF f = "id" THEN Field("int", "1")
     ELSE IF f = "timestamp" THEN Field("str", "t")
     ELSE Field("str", "OPEN")]

BadObject ==
  [f \in {"id", "status"} |->
     IF f = "id" THEN Field("str", "x") ELSE Field("str", "WEIRD")]

Doc(name, ext, words, json, pdf) ==
  [name |-> name, ext |-> ext, words |-> words, json |-> json, pdf |-> pdf]

Docs ==
  { Doc("angry.txt", "txt", {"complaint", "urgent"}, NoJson, NoPdf),
    Doc("issue.eml", "eml", {"issue", "urgent"}, NoJson, NoPdf),
    Doc("bad.json", "json", {}, Malformed, NoPdf),
    Doc("good.json", "json", {"invoice"}, Object(GoodObject), NoPdf),
    Doc("odd.json", "json", {}, Object(BadObject), NoPdf),
    Doc("big.pdf", "pdf", {"invoice", "total"}, NoJson,
        Pdf(TRUE, FALSE, 12000, <<>>, TRUE)),
    Doc("small.pdf", "pdf", {"invoice", "total"}, NoJson,
        Pdf(TRUE, FALSE, 500, <<[quantity |-> 2, price |-> 5000]>>, TRUE)),
    Doc("gdpr.pdf", "pdf", {"gdpr", "regulation"}, NoJson, NoPdf),
    Doc("corrupt.pdf", "pdf", {}, NoJson,
        Pdf(FALSE, FALSE, 0, <<>>, FALSE)),
    Doc("notes.docx", "docx", {"fraud"}, NoJson, NoPdf) }

\* ------------------------------------------------------------------------
\* classifier.py
\* ------------------------------------------------------------------------
classify_format(ext) ==
  IF ext = "pdf" THEN "PDF"
  ELSE IF ext = "json" THEN "JSON"
  ELSE IF ext \in {"txt", "eml"} THEN "Email"
  ELSE "Unknown"

\* str.lower on the words that occur in the texts of the model
LowerCase(w) ==
  IF w = "INVOICE" THEN "invoice"
  ELSE IF w = "Complaint" THEN "complaint"
  ELSE IF w = "Quote" THEN "quote"
  ELSE IF w = "GDPR" THEN "gdpr"
  ELSE IF w = "Fraud" THEN "fraud"
  ELSE w

\* text.lower()
lower(text) == {LowerCase(w) : w \in text}

classify_intent_cased(words) ==
  IF "invoice" \in words THEN "Invoice"
  ELSE IF "rfq" \in words \/ "quote" \in words THEN "RFQ"
  ELSE IF "complaint" \in words \/ "issue" \in words THEN "Complaint"
  ELSE IF "gdpr" \in words \/ "fda" \in words \/ "regulation" \in words
       THEN "Regulation"
  ELSE IF "fraud" \in words \/ "suspicious" \in words THEN "Fraud Risk"
  ELSE "Unknown"

classify_intent(words) ==
  LET text == lower(words)
  IN  IF "invoice" \in text THEN "Invoice"
      ELSE IF "rfq" \in text \/ "quote" \in text THEN "RFQ"
      ELSE IF "complaint" \in text \/ "issue" \in text THEN "Complaint"
      ELSE IF "gdpr" \in text \/ "fda" \in text \/ "regulation" \in text
           THEN "Regulation"
      ELSE IF "fraud" \in text \/ "suspicious" \in text THEN "Fraud Risk"
      ELSE "Unknown"

\* ------------------------------------------------------------------------
\* email_agent.py
\* ------------------------------------------------------------------------
process_email(words) ==
  [sender |-> "unknown@example.com",
   urgency |-> IF "urgent" \in lower(words) THEN "high" ELSE "low",
   tone |-> IF "complaint" \in lower(words) THEN "angry"
            ELSE IF "thank you" \in lower(words) THEN "polite"
            ELSE "neutral"]

\* dict.get(key, default)
Get(d, key, default) == IF key \in DOMAIN d THEN d[key] ELSE default

None == "None"
\* Python's  x or default  for an optional string
OrElse(x, default) == IF x = None \/ x = "" THEN default ELSE x

\* ------------------------------------------------------------------------
\* json_agent.py: validate
\* ------------------------------------------------------------------------
REQUIRED_FIELDS == << <<"id", "int">>, <<"timestamp", "str">>, <<"status", "str">> >>
allowed_status == {"OPEN", "CLOSED", "IN_PROGRESS"}

\* isinstance(value, expected_type); bool is a subclass of int in Python
IsInstance(val, expected) ==
  \/ val.t = expected
  \/ (expected = "int" /\ val.t = "bool")

FieldAnomaly(data, spec) ==
  IF spec[1] \notin DOMAIN data THEN << <<"Missing field", spec[1]>> >>
  ELSE IF ~IsInstance(data[spec[1]], spec[2])
       THEN << <<"Type mismatch", spec[1], spec[2], data[spec[1]].t>> >>
  ELSE <<>>

StatusAnomaly_silent(data) == <<>>

StatusAnomaly(data) ==
  IF "status" \in DOMAIN data /\ data["status"].v \notin allowed_status
  THEN << <<"Invalid status", data["status"].v>> >>
  ELSE <<>>

validate(data) ==
  FieldAnomaly(data, REQUIRED_FIELDS[1]) \o FieldAnomaly(data, REQUIRED_FIELDS[2])
    \o FieldAnomaly(data, REQUIRED_FIELDS[3]) \o StatusAnomaly(data)

\* the values Python cannot hash: a list or a dict
Unhashable == {"list", "dict"}

\* validate raises TypeError instead of returning:  field not in data  on a
\* value that is not a container (null, a number, true, false), and
\* data["status"] not in allowed_status  on a status that cannot be hashed
validate_raises(json) ==
  \/ json.kind = "scalar"
  \/ /\ json.kind = "object"
     /\ "status" \in DOMAIN json.data
     /\ json.data["status"].t \in Unhashable

\* ------------------------------------------------------------------------
\* process_pdf.py: process_pdf(text, filepath)
\* ------------------------------------------------------------------------
KEYWORDS == {"gdpr", "fda", "hipaa", "fca"}

RECURSIVE _sum_from_items(_)
_sum_from_items(items) ==
  IF items = <<>> THEN 0
  ELSE Head(items).quantity * Head(items).price + _sum_from_items(Tail(items))

Max(a, b) == IF a >= b THEN a ELSE b

\* the line items the second pdfplumber.open yields; a failure of the reopen
\* is swallowed by  except Exception: pass  and leaves the list empty
pdf_line_items_kept(pdf) == pdf.items

pdf_line_items(pdf) == IF pdf.reopen THEN pdf.items ELSE <<>>

pdf_invoice_total(pdf) ==
  IF pdf_line_items(pdf) # <<>>
  THEN Max(pdf.total, _sum_from_items(pdf_line_items(pdf)))
  ELSE pdf.total

risk_flag_inclusive(invoice_total) == invoice_total >= RISK_THRESHOLD

\* risk_flag = invoice_total > 10_000
risk_flag(invoice_total) == invoice_total > RISK_THRESHOLD

process_pdf(words, pdf) ==
  [invoice_total |-> pdf_invoice_total(pdf),
   line_items |-> pdf_line_items(pdf),
   flagged_terms |-> KEYWORDS \cap lower(words),
   risk_flag |-> risk_flag(pdf_invoice_total(pdf))]

\* ------------------------------------------------------------------------
\* pdf_agent.py: process_pdf(filepath), which opens the file itself
\* ------------------------------------------------------------------------
\* text is non-empty: the open succeeded and some page has text
pdf_agent_text(pdf) == pdf.readable /\ ~pdf.blank

\* a failure of _extract_tables leaves line_items empty, and text as extracted
pdf_agent_line_items(pdf) ==
  IF pdf.readable /\ pdf.reopen THEN pdf.items ELSE <<>>

_sum_items(items) == _sum_from_items(items)

\* 2) Determine invoice total
pdf_agent_invoice_total(pdf) ==
  LET table_total == IF pdf_agent_line_items(pdf) # <<>>
                     THEN _sum_items(pdf_agent_line_items(pdf))
                     ELSE 0
  IN  IF table_total = 0 /\ pdf_agent_text(pdf) THEN pdf.total ELSE table_total

pdf_agent_process_pdf(words, pdf) ==
  [invoice_total |-> pdf_agent_invoice_total(pdf),
   line_items |-> pdf_agent_line_items(pdf),
   flagged_terms |-> IF pdf_agent_text(pdf) THEN KEYWORDS \cap lower(words) ELSE {},
   risk_flag |-> risk_flag(pdf_agent_invoice_total(pdf)),
   valid |-> pdf_agent_text(pdf)]

pdf_agent_intent(words, pdf) ==
  IF pdf_agent_text(pdf) /\ "invoice" \in words
  THEN "InvoiceAnalysis"
  ELSE "RegulationCheck"

\* ------------------------------------------------------------------------
\* main.py: action_router(intent, format, result), the decision part
\* ------------------------------------------------------------------------
action_router_rule(intent, format, result) ==
  IF format = "Email" /\ intent = "Complaint"
  THEN IF Get(result, "tone", "") = "angry" /\ Get(result, "urgency", "") = "high"
       THEN "POST /crm/escalate"
       ELSE "No escalation needed"
  ELSE IF format = "PDF" /\ intent = "Invoice"
  THEN IF Get(result, "risk_flag", FALSE)
       THEN "POST /risk_alert"
       ELSE "No action required"
  ELSE "No matching rule"

Dispatches == {"POST /crm/escalate", "POST /risk_alert"}

RouterSuccessDetails(action) ==
  IF action = "POST /crm/escalate" THEN "CRM escalation triggered"
  ELSE "Risk alert triggered"

\* ------------------------------------------------------------------------
\* memory.py: init_db.  A row is the record of its columns that hold a value;
\* a column added by ALTER TABLE holds NULL in the rows that were there.
\* ------------------------------------------------------------------------
NULL == "NULL"

\* CREATE TABLE IF NOT EXISTS memory (...)
CreateColumns ==
  {"id", "timestamp", "source", "filename", "file_format", "intent",
   "agent_result", "action_taken"}

\* the columns after init_db
init_db_schema(columns) ==
  (IF columns = {} THEN CreateColumns ELSE columns) \cup {"file_type"}

init_db_rows_recreate(table, columns) ==
  IF "file_type" \in columns THEN table ELSE <<>>

\* the rows after init_db: ALTER TABLE memory ADD COLUMN file_type TEXT
init_db_rows(table, columns) ==
  IF "file_type" \in columns THEN table
  ELSE [i \in DOMAIN table |-> [file_type |-> NULL] @@ table[i]]

\* the columns insert_agent_trace names in its INSERT
InsertColumns ==
  {"timestamp", "filename", "file_type", "intent", "agent_result", "action_taken"}

\* ------------------------------------------------------------------------
\* memory.py / main.py: reading the store
\* ------------------------------------------------------------------------
Remove(s, i) == SubSeq(s, 1, i - 1) \o SubSeq(s, i + 1, Len(s))

RECURSIVE SortByIdDesc(_)
SortByIdDesc(table) ==
  IF Len(table) = 0 THEN <<>>
  ELSE LET i == CHOOSE i \in DOMAIN table :
                  \A j \in DOMAIN table : table[j].id <= table[i].id
       IN  <<table[i]>> \o SortByIdDesc(Remove(table, i))

Take(s, n) == SubSeq(s, 1, IF n < Len(s) THEN n ELSE Len(s))

\* SELECT * FROM memory ORDER BY id DESC
get_all_records(table) == SortByIdDesc(table)

read_memory_unordered(table, limit) ==
  IF limit < 0 THEN table ELSE Take(table, limit)

\* SELECT * FROM memory ORDER BY id DESC LIMIT ?   (SQLite: a negative LIMIT
\* means no upper bound)
read_memory(table, limit) ==
  IF limit < 0 THEN SortByIdDesc(table) ELSE Take(SortByIdDesc(table), limit)

\* ------------------------------------------------------------------------
\* State
\* ------------------------------------------------------------------------
VARIABLES
  pc,               \* position of each process in upload_file / __main__
  caller,           \* who called process_json: "upload_file" or "__main__"
  run,              \* serial number of the upload a worker is serving
  doc,              \* the uploaded file
  file_format,      \* upload_file: file_format
  business_intent,  \* upload_file: business_intent
  agent_result,     \* upload_file: agent_result
  router_result,    \* upload_file: router_result
  response,         \* what the caller of upload_file receives
  attempt,          \* post_with_retries: attempt
  backoff,          \* post_with_retries: backoff
  sleeps,           \* the time.sleep calls post_with_retries has completed
  calls,            \* the outbound POSTs the run has issued, in order, each
                    \* with its call site and URL
  hung,             \* the endpoint will never answer the POST in flight
  ins,              \* insert_agent_trace: the arguments of the call in progress
  ret,              \* insert_agent_trace: the call site to return to
  store,            \* rows of table memory, in commit order
  seq,              \* sqlite_sequence for table memory (AUTOINCREMENT)
  lock,             \* the processes holding SQLite's write lock
  schema,           \* the columns of table memory; empty when there is no table
  uploads,          \* uploads accepted so far
  cli_runs,         \* runs of json_agent.py started so far
  rows              \* the last answer of read_memory

procVars == <<pc, caller, run, doc, file_format, business_intent, agent_result,
              router_result, response, attempt, backoff, sleeps, calls, hung,
              ins, ret>>
storeVars == <<store, seq, lock, schema>>
vars == <<procVars, storeVars, uploads, cli_runs, rows>>

NoDoc == Doc("", "", {}, NoJson, NoPdf)
NoResult == [unset |-> TRUE]
NoIns == [unset |-> TRUE]
NoResponse == [code |-> 0, detail |-> ""]

\* no process has started a run
InitProcs ==
  /\ pc = [p \in Procs |-> "idle"]
  /\ caller = [p \in Procs |-> ""]
  /\ run = [p \in Procs |-> 0]
  /\ doc = [p \in Procs |-> NoDoc]
  /\ file_format = [p \in Procs |-> ""]
  /\ business_intent = [p \in Procs |-> ""]
  /\ agent_result = [p \in Procs |-> NoResult]
  /\ router_result = [p \in Procs |-> NoResult]
  /\ response = [p \in Procs |-> NoResponse]
  /\ attempt = [p \in Procs |-> 0]
  /\ backoff = [p \in Procs |-> 0]
  /\ sleeps = [p \in Procs |-> <<>>]
  /\ calls = [p \in Procs |-> <<>>]
  /\ hung = [p \in Procs |-> FALSE]
  /\ ins = [p \in Procs |-> NoIns]
  /\ ret = [p \in Procs |-> ""]
  /\ lock = {}
  /\ uploads = 0
  /\ cli_runs = 0
  /\ rows = <<>>

\* the application has been imported (main.py:32 runs init_db) in a directory
\* without memory.db
Init ==
  /\ InitProcs
  /\ store = <<>>
  /\ seq = 0
  /\ schema = init_db_schema({})

\* ------------------------------------------------------------------------
\* memory.py: insert_agent_trace
\* ------------------------------------------------------------------------
Trace(filename, file_type, intent, result, action_taken) ==
  [filename |-> filename, file_type |-> file_type, intent |-> intent,
   agent_result |-> result, action_taken |-> action_taken]

\* the call: sqlite3.connect and the cursor; nothing is written yet
CallInsert(p, trace, site) ==
  /\ ins' = [ins EXCEPT ![p] = trace]
  /\ ret' = [ret EXCEPT ![p] = site]
  /\ pc' = [pc EXCEPT ![p] = "ins_exec"]

\* id INTEGER PRIMARY KEY AUTOINCREMENT: one more than the largest id ever used
NextId == seq + 1

CanWrite_unlocked(p) == TRUE

\* the INSERT may run when no other connection holds the write lock
CanWrite(p) == lock = {}

\* c.execute(INSERT ...): takes the write lock and assigns the row id
InsertExecute(p) ==
  /\ pc[p] = "ins_exec"
  /\ CanWrite(p)
  /\ InsertColumns \subseteq schema
  /\ lock' = lock \cup {p}
  /\ ins' = [ins EXCEPT ![p] = [id |-> NextId] @@ @]
  /\ pc' = [pc EXCEPT ![p] = "ins_commit"]
  /\ UNCHANGED <<caller, run, doc, file_format, business_intent, agent_result,
                 router_result, response, attempt, backoff, sleeps, calls,
                 hung, ret, store, seq, uploads, cli_runs, rows,
                 schema>>

\* what the caller does when the call returns: the agent returns its result
\* to step 4 of upload_file (which sets valid on a PDF result) or to __main__
\* (which prints it and exits); after step 6 upload_file goes on to step 7;
\* route_action returns its action_log
ReturnFromInsert(p) ==
  IF ret[p] = "route_action"
  THEN /\ pc' = [pc EXCEPT ![p] = "done"]
       /\ response' = [response EXCEPT ![p] = [code |-> 0, detail |-> "returned"]]
       /\ UNCHANGED agent_result
  ELSE IF ret[p] = "agent"
  THEN /\ agent_result' =
            [agent_result EXCEPT ![p] =
               IF caller[p] = "upload_file" /\ file_format[p] = "PDF"
               THEN [valid |-> TRUE] @@ ins[p].agent_result
               ELSE ins[p].agent_result]
       /\ pc' = [pc EXCEPT ![p] =
                   IF caller[p] = "upload_file" THEN "route" ELSE "done"]
       /\ response' = [response EXCEPT ![p] =
                         IF caller[p] = "upload_file" THEN @
                         ELSE [code |-> 0, detail |-> "printed"]]
  ELSE /\ pc' = [pc EXCEPT ![p] = "respond"]
       /\ UNCHANGED <<agent_result, response>>

Disconnected_kept(p) == lock

\* conn.close() (or the connection dropped when the call raises): the lock
\* holders without p
Disconnected(p) == lock \ {p}

\* conn.commit(); conn.close()
InsertCommit(p) ==
  /\ pc[p] = "ins_commit"
  /\ store' = Append(store, [run |-> run[p]] @@ ins[p])
  /\ seq' = ins[p].id
  /\ lock' = Disconnected(p)
  /\ ins' = [ins EXCEPT ![p] = NoIns]
  /\ ReturnFromInsert(p)
  /\ UNCHANGED <<caller, run, doc, file_format, business_intent, router_result,
                 attempt, backoff, sleeps, calls, hung, ret, uploads,
                 cli_runs, rows,
                 schema>>

\* the result step 4 of upload_file builds when the agent raised; trace is
\* traceback.format_exc(), which names the exception
AgentFailed(exc) ==
  [valid |-> FALSE, error |-> "Agent processing failed", trace |-> exc]

\* what happens to an exception out of insert_agent_trace: inside an agent
\* called by upload_file it is caught by  except Exception  of step 4; in
\* step 6 nothing catches it and the request ends in the server's 500 answer;
\* under __main__ nothing catches it and the process exits with a traceback
RaiseFromInsert(p) ==
  IF ret[p] = "agent" /\ caller[p] = "upload_file"
  THEN /\ agent_result' = [agent_result EXCEPT ![p] = AgentFailed("sqlite3.Error")]
       /\ pc' = [pc EXCEPT ![p] = "route"]
       /\ UNCHANGED response
  ELSE /\ response' = [response EXCEPT ![p] =
                         IF caller[p] = "upload_file"
                         THEN [code |-> 500, detail |-> "Internal Server Error"]
                         ELSE [code |-> 1, detail |-> "Traceback"]]
       /\ pc' = [pc EXCEPT ![p] = "done"]
       /\ UNCHANGED agent_result

\* an exception raised by the agent's own code: step 4 of upload_file catches
\* it; under __main__ the process exits with a traceback
RaiseFromAgent(p, exc) ==
  IF caller[p] = "upload_file"
  THEN /\ agent_result' = [agent_result EXCEPT ![p] = AgentFailed(exc)]
       /\ pc' = [pc EXCEPT ![p] = "route"]
       /\ UNCHANGED response
  ELSE /\ response' = [response EXCEPT ![p] = [code |-> 1, detail |-> exc]]
       /\ pc' = [pc EXCEPT ![p] = "done"]
       /\ UNCHANGED agent_result

\* sqlite3 raises (database is locked, disk I/O error, malformed image): the
\* open transaction is rolled back and nothing is written
InsertFail(p) ==
  /\ pc[p] \in {"ins_exec", "ins_commit"}
  /\ lock' = Disconnected(p)
  /\ ins' = [ins EXCEPT ![p] = NoIns]
  /\ RaiseFromInsert(p)
  /\ UNCHANGED <<caller, run, doc, file_format, business_intent, router_result,
                 attempt, backoff, sleeps, calls, hung, ret, store, seq,
                 uploads, cli_runs, rows,
                 schema>>

\* ------------------------------------------------------------------------
\* main.py: upload_file, steps 1-3 (save, extract text, classify)
\* ------------------------------------------------------------------------
HttpError(p, detail) ==
  /\ response' = [response EXCEPT ![p] = [code |-> 500, detail |-> detail]]
  /\ pc' = [pc EXCEPT ![p] = "done"]
  /\ file_format' = [file_format EXCEPT ![p] = ""]
  /\ business_intent' = [business_intent EXCEPT ![p] = ""]

\* pdfplumber.open / read_text of step 2 raise on a file they cannot read
ExtractFails(d) == d.ext = "pdf" /\ ~d.pdf.readable

Upload(p, d, saved) ==
  /\ pc[p] \in {"idle", "done"}
  /\ uploads < MaxUploads
  /\ uploads' = uploads + 1
  /\ run' = [run EXCEPT ![p] = uploads + 1]
  /\ doc' = [doc EXCEPT ![p] = d]
  /\ agent_result' = [agent_result EXCEPT ![p] = NoResult]
  /\ router_result' = [router_result EXCEPT ![p] = NoResult]
  /\ attempt' = [attempt EXCEPT ![p] = 0]
  /\ backoff' = [backoff EXCEPT ![p] = 0]
  /\ sleeps' = [sleeps EXCEPT ![p] = <<>>]
  /\ calls' = [calls EXCEPT ![p] = <<>>]
  /\ IF ~saved THEN HttpError(p, "Unable to save file")
     ELSE IF ExtractFails(d) THEN HttpError(p, "Text extraction failed")
     ELSE /\ file_format' = [file_format EXCEPT ![p] = classify_format(d.ext)]
          /\ business_intent' =
               [business_intent EXCEPT ![p] = classify_intent(d.words)]
          /\ response' = [response EXCEPT ![p] = NoResponse]
          /\ pc' = [pc EXCEPT ![p] = "agent"]
  /\ caller' = [caller EXCEPT ![p] = "upload_file"]
  /\ UNCHANGED <<hung, ins, ret, store, seq, lock, cli_runs, rows,
                 schema>>

\* ------------------------------------------------------------------------
\* main.py: upload_file, step 4 (agent routing)
\* ------------------------------------------------------------------------
AgentEmail(p) ==
  /\ pc[p] = "agent"
  /\ file_format[p] = "Email"
  /\ agent_result' = [agent_result EXCEPT ![p] = process_email(doc[p].words)]
  /\ pc' = [pc EXCEPT ![p] = "route"]
  /\ UNCHANGED <<caller, run, doc, file_format, business_intent, router_result,
                 response, attempt, backoff, sleeps, calls, hung, ins, ret,
                 store, seq, lock, uploads, cli_runs, rows,
                 schema>>

AgentUnsupported(p) ==
  /\ pc[p] = "agent"
  /\ file_format[p] = "Unknown"
  /\ agent_result' = [agent_result EXCEPT ![p] =
                        [valid |-> FALSE, error |-> "Unsupported file format"]]
  /\ pc' = [pc EXCEPT ![p] = "route"]
  /\ UNCHANGED <<caller, run, doc, file_format, business_intent, router_result,
                 response, attempt, backoff, sleeps, calls, hung, ins, ret,
                 store, seq, lock, uploads, cli_runs, rows,
                 schema>>

\* process_pdf(text, filepath=str(saved_path)) up to its insert_agent_trace
AgentPdf(p) ==
  /\ pc[p] = "agent"
  /\ file_format[p] = "PDF"
  /\ LET result == process_pdf(doc[p].words, doc[p].pdf)
     IN  CallInsert(p,
           Trace(<<run[p], doc[p].name>>, "PDF", "InvoiceAnalysis", result,
                 IF result.risk_flag THEN "risk_logged" ELSE "log_only"),
           "agent")
  /\ UNCHANGED <<caller, run, doc, file_format, business_intent, agent_result,
                 router_result, response, attempt, backoff, sleeps, calls,
                 hung, store, seq, lock, uploads, cli_runs, rows,
                 schema>>

\* ------------------------------------------------------------------------
\* json_agent.py: process_json.  upload_file calls process_json(text), with
\* the defaults source="webhook" and intent="Unknown"; __main__ calls
\* process_json(raw, source=str(fp), intent="WebhookData")
\* ------------------------------------------------------------------------
RISK_ALERT_ENDPOINT == "POST /risk_alert"

\* an outbound request leaves
Request(site, url) == [site |-> site, url |-> url]

JsonResult(json) ==
  [valid |-> validate(json.data) = <<>>, anomalies |-> validate(json.data),
   data |-> json.data]

JsonTrace(p, result, action_taken) ==
  IF caller[p] = "upload_file"
  THEN Trace(<<0, "webhook">>, "JSON", "Unknown", result, action_taken)
  ELSE Trace(<<0, doc[p].name>>, "JSON", "WebhookData", result, action_taken)

InProcessJson(p) ==
  \/ pc[p] = "agent" /\ file_format[p] = "JSON"
  \/ pc[p] = "cli"

\* steps 1-3 up to the first blocking call
ProcessJson(p) ==
  /\ InProcessJson(p)
  /\ IF doc[p].json.kind = "malformed"
     THEN /\ CallInsert(p,
               JsonTrace(p, [valid |-> FALSE, anomalies |-> << <<"Invalid JSON">> >>,
                          data |-> NoJson.data], "parse_error"),
               "agent")
          /\ UNCHANGED <<agent_result, response, attempt, backoff, calls>>
     ELSE IF validate_raises(doc[p].json)
     THEN /\ RaiseFromAgent(p, "TypeError")
          /\ UNCHANGED <<attempt, backoff, calls, ins, ret>>
     ELSE IF JsonResult(doc[p].json).valid
     THEN /\ CallInsert(p, JsonTrace(p, JsonResult(doc[p].json), "logged"), "agent")
          /\ UNCHANGED <<agent_result, response, attempt, backoff, calls>>
     ELSE \* post_with_retries: backoff = 1, attempt 1, requests.post
          /\ attempt' = [attempt EXCEPT ![p] = 1]
          /\ backoff' = [backoff EXCEPT ![p] = 1]
          /\ calls' = [calls EXCEPT ![p] =
                         Append(@, Request("post_with_retries", RISK_ALERT_ENDPOINT))]
          /\ pc' = [pc EXCEPT ![p] = "post"]
          /\ UNCHANGED <<agent_result, response, ins, ret>>
  /\ UNCHANGED <<caller, run, doc, file_format, business_intent, router_result,
                 sleeps, hung, store, seq, lock, uploads, cli_runs, rows,
                 schema>>

\* ------------------------------------------------------------------------
\* json_agent.py: post_with_retries
\* ------------------------------------------------------------------------
\* what the endpoint can do with a request it answers
Answers == {"2xx", "non-2xx", "connection error"}

RetriesExhausted_late(a) == a = MAX_RETRIES + 1

\* if attempt == MAX_RETRIES
RetriesExhausted(a) == a = MAX_RETRIES

\* backoff *= 2
NextBackoff(b) == b * 2

risk_alert_failed_as_success(err) == "risk_alert_success"

\* f"risk_alert_failed: {err}"
risk_alert_failed(err) ==
  IF err = "non-2xx" THEN "risk_alert_failed: non-2xx"
  ELSE IF err = "connection error" THEN "risk_alert_failed: connection error"
  ELSE "risk_alert_failed: timeout"

\* the except branch: give up with (False, str(exc)) or go to sleep
PostFailed(p, err) ==
  IF RetriesExhausted(attempt[p])
  THEN CallInsert(p, JsonTrace(p, JsonResult(doc[p].json),
                               risk_alert_failed(err)), "agent")
  ELSE /\ pc' = [pc EXCEPT ![p] = "sleep"]
       /\ UNCHANGED <<ins, ret>>

\* requests.post returns or raises; raise_for_status turns a non-2xx answer
\* into an HTTPError, a RequestException like the connection error
PostReturn(p, answer) ==
  /\ pc[p] = "post"
  /\ ~hung[p]
  /\ IF answer = "2xx"
     THEN CallInsert(p, JsonTrace(p, JsonResult(doc[p].json), "risk_alert_success"),
                     "agent")
     ELSE PostFailed(p, answer)
  /\ UNCHANGED <<caller, run, doc, file_format, business_intent, agent_result,
                 router_result, response, attempt, backoff, sleeps, calls,
                 hung, store, seq, lock, uploads, cli_runs, rows,
                 schema>>

\* timeout=REQUEST_TIMEOUT: requests raises Timeout, a RequestException
PostTimeout(p) ==
  /\ pc[p] = "post"
  /\ hung[p]
  /\ REQUEST_TIMEOUT > 0
  /\ hung' = [hung EXCEPT ![p] = FALSE]
  /\ PostFailed(p, "timeout")
  /\ UNCHANGED <<caller, run, doc, file_format, business_intent, agent_result,
                 router_result, response, attempt, backoff, sleeps, calls,
                 store, seq, lock, uploads, cli_runs, rows,
                 schema>>

\* time.sleep(backoff) ends; backoff *= 2; next attempt, requests.post
Wake(p) ==
  /\ pc[p] = "sleep"
  /\ sleeps' = [sleeps EXCEPT ![p] = Append(@, backoff[p])]
  /\ backoff' = [backoff EXCEPT ![p] = NextBackoff(@)]
  /\ attempt' = [attempt EXCEPT ![p] = @ + 1]
  /\ calls' = [calls EXCEPT ![p] =
                 Append(@, Request("post_with_retries", RISK_ALERT_ENDPOINT))]
  /\ pc' = [pc EXCEPT ![p] = "post"]
  /\ UNCHANGED <<caller, run, doc, file_format, business_intent, agent_result,
                 router_result, response, hung, ins, ret, store, seq, lock,
                 uploads, cli_runs, rows,
                 schema>>

\* the environment: the endpoint never answers the request in flight
EndpointHangs(p) ==
  /\ pc[p] \in {"post", "rpost", "rapost"}
  /\ ~hung[p]
  /\ hung' = [hung EXCEPT ![p] = TRUE]
  /\ UNCHANGED <<pc, caller, run, doc, file_format, business_intent, agent_result,
                 router_result, response, attempt, backoff, sleeps, calls,
                 ins, ret, store, seq, lock, uploads, cli_runs, rows,
                 schema>>

\* ------------------------------------------------------------------------
\* main.py: upload_file, steps 5-7 (action_router, save trace, respond)
\* ------------------------------------------------------------------------
\* step 6: insert_agent_trace(..., action_taken=router_result.get("action") or "log_only")
SaveTrace_raw(p, outcome) ==
  CallInsert(p,
    Trace(<<run[p], doc[p].name>>, file_format[p], business_intent[p],
          agent_result[p], outcome.action),
    "final")

SaveTrace(p, outcome) ==
  CallInsert(p,
    Trace(<<run[p], doc[p].name>>, file_format[p], business_intent[p],
          agent_result[p], OrElse(outcome.action, "log_only")),
    "final")

Outcome(action, status, details) ==
  [action |-> action, status |-> status, details |-> details]

\* action_router up to its requests.post, or to its return when no rule fires
Route(p) ==
  /\ pc[p] = "route"
  /\ LET rule == action_router_rule(business_intent[p], file_format[p],
                                    agent_result[p])
     IN  IF rule \in Dispatches
         THEN /\ calls' = [calls EXCEPT ![p] =
                             Append(@, Request("action_router", rule))]
              /\ pc' = [pc EXCEPT ![p] = "rpost"]
              /\ UNCHANGED <<router_result, ins, ret>>
         ELSE /\ router_result' =
                   [router_result EXCEPT ![p] = Outcome(None, "skipped", rule)]
              /\ SaveTrace(p, Outcome(None, "skipped", rule))
              /\ UNCHANGED calls
  /\ UNCHANGED <<caller, run, doc, file_format, business_intent, agent_result,
                 response, attempt, backoff, sleeps, hung, store, seq, lock,
                 uploads, cli_runs, rows,
                 schema>>

\* requests.post(url, json=payload) returns a response of any status, which
\* action_router does not look at, or raises, which  except Exception  catches
action_router_outcome(action, answer) ==
  IF answer = "connection error"
  THEN Outcome(None, "error", answer)
  ELSE Outcome(action, "success", RouterSuccessDetails(action))

RouterReturn(p, answer) ==
  /\ pc[p] = "rpost"
  /\ ~hung[p]
  /\ LET outcome == action_router_outcome(calls[p][Len(calls[p])].url, answer)
     IN  /\ router_result' = [router_result EXCEPT ![p] = outcome]
         /\ SaveTrace(p, outcome)
  /\ UNCHANGED <<caller, run, doc, file_format, business_intent, agent_result,
                 response, attempt, backoff, sleeps, calls, hung, store, seq,
                 lock, uploads, cli_runs, rows,
                 schema>>

\* step 7: return JSONResponse({"status": "success", ...})
Respond(p) ==
  /\ pc[p] = "respond"
  /\ response' = [response EXCEPT ![p] = [code |-> 200, detail |-> "success"]]
  /\ pc' = [pc EXCEPT ![p] = "done"]
  /\ UNCHANGED <<caller, run, doc, file_format, business_intent, agent_result,
                 router_result, attempt, backoff, sleeps, calls, hung, ins,
                 ret, store, seq, lock, uploads, cli_runs, rows,
                 schema>>

\* ------------------------------------------------------------------------
\* json_agent.py: __main__   (python json_agent.py sample.json)
\* ------------------------------------------------------------------------
JsonDocs == {d \in Docs : d.ext = "json"}

\* init_db(): when it has something to create or to add it needs the write
\* lock, and waits for it
init_db ==
  /\ init_db_schema(schema) # schema => lock = {}
  /\ schema' = init_db_schema(schema)
  /\ store' = init_db_rows(store, schema)

\* the import of json_agent.py runs init_db (line 30), then __main__ starts
CliStart(p, d) ==
  /\ pc[p] \in {"idle", "done"}
  /\ cli_runs < MaxCliRuns
  /\ cli_runs' = cli_runs + 1
  /\ run' = [run EXCEPT ![p] = MaxUploads + cli_runs + 1]
  /\ caller' = [caller EXCEPT ![p] = "__main__"]
  /\ doc' = [doc EXCEPT ![p] = d]
  /\ agent_result' = [agent_result EXCEPT ![p] = NoResult]
  /\ response' = [response EXCEPT ![p] = NoResponse]
  /\ attempt' = [attempt EXCEPT ![p] = 0]
  /\ backoff' = [backoff EXCEPT ![p] = 0]
  /\ sleeps' = [sleeps EXCEPT ![p] = <<>>]
  /\ calls' = [calls EXCEPT ![p] = <<>>]
  /\ pc' = [pc EXCEPT ![p] = "cli"]
  /\ init_db
  /\ UNCHANGED <<file_format, business_intent, router_result, hung, ins, ret,
                 seq, lock, uploads, rows>>

\* ------------------------------------------------------------------------
\* pdf_agent.py: __main__   (python pdf_agent.py file.pdf)
\* ------------------------------------------------------------------------
PdfCliStart(p, d) ==
  /\ pc[p] \in {"idle", "done"}
  /\ cli_runs < MaxCliRuns
  /\ cli_runs' = cli_runs + 1
  /\ run' = [run EXCEPT ![p] = MaxUploads + cli_runs + 1]
  /\ caller' = [caller EXCEPT ![p] = "__main__"]
  /\ doc' = [doc EXCEPT ![p] = d]
  /\ agent_result' = [agent_result EXCEPT ![p] = NoResult]
  /\ response' = [response EXCEPT ![p] = NoResponse]
  /\ attempt' = [attempt EXCEPT ![p] = 0]
  /\ backoff' = [backoff EXCEPT ![p] = 0]
  /\ sleeps' = [sleeps EXCEPT ![p] = <<>>]
  /\ calls' = [calls EXCEPT ![p] = <<>>]
  /\ pc' = [pc EXCEPT ![p] = "pdf_cli"]
  /\ UNCHANGED <<file_format, business_intent, router_result, hung, ins, ret,
                 store, seq, lock, uploads, rows,
                 schema>>

\* process_pdf(filepath) up to its insert_agent_trace
AgentPdfFile(p) ==
  /\ pc[p] = "pdf_cli"
  /\ LET result == pdf_agent_process_pdf(doc[p].words, doc[p].pdf)
     IN  CallInsert(p,
           Trace(<<0, doc[p].name>>, "PDF",
                 pdf_agent_intent(doc[p].words, doc[p].pdf), result,
                 IF result.risk_flag THEN "risk_logged" ELSE "log_only"),
           "agent")
  /\ UNCHANGED <<caller, run, doc, file_format, business_intent, agent_result,
                 router_result, response, attempt, backoff, sleeps, calls,
                 hung, store, seq, lock, uploads, cli_runs, rows,
                 schema>>

\* ------------------------------------------------------------------------
\* action_router.py: route_action(intent, agent_result), called by a program
\* that imports it (no module of the repository does)
\* ------------------------------------------------------------------------
route_action_rule(intent, result) ==
  IF intent = "Complaint"
  THEN IF Get(result, "tone", None) = "angry" /\ Get(result, "urgency", None) = "high"
       THEN "escalate_to_crm"
       ELSE None
  ELSE IF intent = "Invoice" /\ Get(result, "risk_flag", FALSE)
  THEN "flag_high_risk_invoice"
  ELSE IF intent = "Regulation" /\ Get(result, "flagged_terms", {}) # {}
  THEN "compliance_alert"
  ELSE None

route_action_url(action) ==
  IF action = "escalate_to_crm" THEN "POST /crm/escalate"
  ELSE IF action = "flag_high_risk_invoice" THEN "POST /risk_alert"
  ELSE "POST /compliance_alert"

\* the trace route_action persists: action_taken = action_log["action"] or "none"
RouteActionTrace_raw(p, action_log) ==
  Trace(<<0, "[action_router]">>, "system", business_intent[p], action_log,
        action_log.action)

RouteActionTrace(p, action_log) ==
  Trace(<<0, "[action_router]">>, "system", business_intent[p], action_log,
        OrElse(action_log.action, "none"))

RouteActionCall(p, intent, result) ==
  /\ pc[p] \in {"idle", "done"}
  /\ cli_runs < MaxCliRuns
  /\ cli_runs' = cli_runs + 1
  /\ run' = [run EXCEPT ![p] = MaxUploads + cli_runs + 1]
  /\ caller' = [caller EXCEPT ![p] = "import"]
  /\ doc' = [doc EXCEPT ![p] = NoDoc]
  /\ business_intent' = [business_intent EXCEPT ![p] = intent]
  /\ agent_result' = [agent_result EXCEPT ![p] = result]
  /\ router_result' = [router_result EXCEPT ![p] = NoResult]
  /\ response' = [response EXCEPT ![p] = NoResponse]
  /\ attempt' = [attempt EXCEPT ![p] = 0]
  /\ backoff' = [backoff EXCEPT ![p] = 0]
  /\ sleeps' = [sleeps EXCEPT ![p] = <<>>]
  /\ calls' = [calls EXCEPT ![p] = <<>>]
  /\ pc' = [pc EXCEPT ![p] = "route_action"]
  /\ UNCHANGED <<file_format, hung, ins, ret, store, seq, lock, uploads, rows,
                 schema>>

\* route_action up to its requests.post, or to its insert_agent_trace when no
\* rule fires
RouteAction(p) ==
  /\ pc[p] = "route_action"
  /\ LET action == route_action_rule(business_intent[p], agent_result[p])
         skipped == Outcome(None, "skipped", "No action required")
     IN  IF action # None
         THEN /\ calls' = [calls EXCEPT ![p] =
                             Append(@, Request("route_action", route_action_url(action)))]
              /\ pc' = [pc EXCEPT ![p] = "rapost"]
              /\ UNCHANGED <<router_result, ins, ret>>
         ELSE /\ router_result' = [router_result EXCEPT ![p] = skipped]
              /\ CallInsert(p, RouteActionTrace(p, skipped), "route_action")
              /\ UNCHANGED calls
  /\ UNCHANGED <<caller, run, doc, file_format, business_intent, agent_result,
                 response, attempt, backoff, sleeps, hung, store, seq, lock,
                 uploads, cli_runs, rows, schema>>

\* what the endpoint can do with a request of route_action that it answers:
\* response.json() raises on a body that is not JSON
RouteAnswers == Answers \cup {"2xx, body not JSON"}

\* response.status_code, an int, written here as its decimal numeral
status_code(answer) == IF answer = "2xx" THEN "200" ELSE "500"

\* the action_log after the try block
route_action_log(action, answer) ==
  IF answer \in {"2xx", "non-2xx"}
  THEN Outcome(action, status_code(answer), "response body")
  ELSE Outcome("error", "failed", answer)

RouteActionReturn(p, answer) ==
  /\ pc[p] = "rapost"
  /\ ~hung[p]
  /\ LET action == route_action_rule(business_intent[p], agent_result[p])
         action_log == route_action_log(action, answer)
     IN  /\ router_result' = [router_result EXCEPT ![p] = action_log]
         /\ CallInsert(p, RouteActionTrace(p, action_log), "route_action")
  /\ UNCHANGED <<caller, run, doc, file_format, business_intent, agent_result,
                 response, attempt, backoff, sleeps, calls, hung, store, seq,
                 lock, uploads, cli_runs, rows, schema>>

\* ------------------------------------------------------------------------
\* main.py: read_memory(limit)
\* ------------------------------------------------------------------------
Limits == (-1)..MaxLimit

\* the handler runs on the event loop of the server, between two uploads
ReadMemory(p, limit) ==
  /\ pc[p] \in {"idle", "done"}
  /\ schema # {}
  /\ rows' = read_memory(store, limit)
  /\ UNCHANGED <<procVars, storeVars, uploads, cli_runs>>

\* ------------------------------------------------------------------------
\* Specification
\* ------------------------------------------------------------------------
Step(p) ==
  \/ \E d \in Docs, saved \in BOOLEAN : Upload(p, d, saved)
  \/ AgentEmail(p)
  \/ AgentUnsupported(p)
  \/ AgentPdf(p)
  \/ ProcessJson(p)
  \/ \E answer \in Answers : PostReturn(p, answer)
  \/ PostTimeout(p)
  \/ Wake(p)
  \/ InsertExecute(p)
  \/ InsertCommit(p)
  \/ InsertFail(p)
  \/ Route(p)
  \/ \E answer \in Answers : RouterReturn(p, answer)
  \/ Respond(p)

\* the FastAPI application: POST /upload and GET /memory
Next ==
  \/ \E p \in Servers : Step(p)
  \/ \E p \in Servers : EndpointHangs(p)
  \/ \E p \in Servers, limit \in Limits : ReadMemory(p, limit)

Spec == Init /\ [][Next]_vars

\* the JSON agent run from the command line by several processes at once
CliStep(p) ==
  \/ \E d \in JsonDocs : CliStart(p, d)
  \/ ProcessJson(p)
  \/ \E answer \in Answers : PostReturn(p, answer)
  \/ PostTimeout(p)
  \/ Wake(p)
  \/ InsertExecute(p)
  \/ InsertCommit(p)
  \/ InsertFail(p)

StoreNext ==
  \/ \E p \in Writers : CliStep(p)
  \/ \E p \in Writers : EndpointHangs(p)

StoreSpec == Init /\ [][StoreNext]_vars

\* ------------------------------------------------------------------------
\* The application started in a directory that may hold a memory.db of an
\* earlier version, whose table lacks the column file_type
\* ------------------------------------------------------------------------
OldColumns == CreateColumns

OldRow(id) ==
  [run |-> 0, id |-> id, filename |-> <<0, "old.txt">>, file_format |-> "Email",
   intent |-> "Complaint", agent_result |-> [valid |-> TRUE],
   action_taken |-> "log_only"]

\* memory.db as found: absent, or created by the earlier version and holding
\* up to two rows, or created by this version
FoundDbs ==
  { [schema |-> {}, store |-> <<>>, seq |-> 0],
    [schema |-> OldColumns, store |-> <<>>, seq |-> 0],
    [schema |-> OldColumns, store |-> <<OldRow(1)>>, seq |-> 1],
    [schema |-> OldColumns, store |-> <<OldRow(1), OldRow(2)>>, seq |-> 2],
    [schema |-> init_db_schema({}), store |-> <<>>, seq |-> 0] }

MigrationInit ==
  /\ InitProcs
  /\ \E db \in FoundDbs :
       /\ schema = db.schema
       /\ store = db.store
       /\ seq = db.seq

\* main.py: init_db() at import and again in _startup, each time the server
\* process starts
Startup(p) ==
  /\ pc[p] \in {"idle", "done"}
  /\ init_db
  /\ UNCHANGED <<procVars, seq, lock, uploads, cli_runs, rows>>

MigrationNext ==
  \/ \E p \in Servers : Startup(p)
  \/ \E p \in Servers, limit \in Limits : ReadMemory(p, limit)
  \/ CliStep(1)
  \/ EndpointHangs(1)

MigrationSpec == MigrationInit /\ [][MigrationNext]_vars

\* ------------------------------------------------------------------------
\* One run on any input.  The agents do not read the store, so what an agent
\* makes of its input is explored on the first run against the fresh store,
\* over a wider set of inputs than Docs.
\* ------------------------------------------------------------------------
Absent == Field("absent", "")
IdValues == {Absent, Field("int", "1"), Field("str", "x"), Field("bool", "true")}
TimestampValues == {Absent, Field("str", "t")}
StatusValues == {Absent, Field("str", "OPEN"), Field("str", "WEIRD"),
                 Field("int", "5"), Field("list", "[]")}

\* the JSON object with the given members, those that are Absent left out
JsonObject(id, timestamp, status) ==
  LET member == [f \in {"id", "timestamp", "status"} |->
                   IF f = "id" THEN id
                   ELSE IF f = "timestamp" THEN timestamp ELSE status]
  IN  [f \in {n \in DOMAIN member : member[n] # Absent} |-> member[f]]

JsonValues ==
  {Malformed, Array, Scalar}
    \cup {Object(JsonObject(i, t, s)) :
            i \in IdValues, t \in TimestampValues, s \in StatusValues}

JsonInputs == {Doc("payload.json", "json", {}, j, NoPdf) : j \in JsonValues}

PdfTotals == {0, 500, RISK_THRESHOLD, 12000}
PdfTables ==
  { <<>>,
    <<[quantity |-> 1, price |-> 100]>>,
    <<[quantity |-> 0, price |-> 100]>>,
    <<[quantity |-> 2, price |-> 5000]>>,
    <<[quantity |-> 1, price |-> 5000], [quantity |-> 2, price |-> 5000]>> }
PdfWords == {{"invoice", "total"}, {"gdpr", "regulation"}}

\* a blank document has no keyword and no total; a document that cannot be
\* opened has nothing
PdfInputs ==
  {Doc("file.pdf", "pdf", w, NoJson, Pdf(TRUE, FALSE, t, i, r)) :
     w \in PdfWords, t \in PdfTotals, i \in PdfTables, r \in BOOLEAN}
    \cup {Doc("file.pdf", "pdf", {}, NoJson, Pdf(TRUE, TRUE, 0, i, r)) :
            i \in PdfTables, r \in BOOLEAN}
    \cup {Doc("file.pdf", "pdf", {}, NoJson, Pdf(FALSE, FALSE, 0, <<>>, FALSE))}

\* the texts of the e-mails: any two of these words, or all of them
TextWords ==
  {"invoice", "INVOICE", "rfq", "Quote", "complaint", "Complaint", "issue",
   "GDPR", "fda", "regulation", "Fraud", "suspicious", "hello"}
Texts == {t \in SUBSET TextWords : Cardinality(t) <= 2} \cup {TextWords}

EmailInputs == {Doc("mail.txt", "txt", t, NoJson, NoPdf) : t \in Texts}

\* files of a format no agent handles
OtherInputs == {Doc("notes.docx", "docx", t, NoJson, NoPdf) : t \in {{}, {"Fraud"}}}

UploadInputs == JsonInputs \cup PdfInputs \cup EmailInputs \cup OtherInputs

RouteIntents == {"Complaint", "Invoice", "Regulation", "Unknown"}
RouteResults ==
  { [tone |-> "angry", urgency |-> "high"],
    [tone |-> "neutral", urgency |-> "high"],
    [risk_flag |-> TRUE, flagged_terms |-> {}],
    [risk_flag |-> FALSE, flagged_terms |-> {"gdpr"}],
    [valid |-> FALSE] }

FirstRun == uploads = 0 /\ cli_runs = 0

RunUpload(p, d) == FirstRun /\ Upload(p, d, TRUE)

RunCli(p, d) == FirstRun /\ CliStart(p, d)

RunPdfCli(p, d) == FirstRun /\ PdfCliStart(p, d)

RunRouteAction(p, intent, result) == FirstRun /\ RouteActionCall(p, intent, result)

\* every step of a run after its start
Work(p) ==
  \/ AgentEmail(p)
  \/ AgentUnsupported(p)
  \/ AgentPdf(p)
  \/ AgentPdfFile(p)
  \/ ProcessJson(p)
  \/ \E answer \in Answers : PostReturn(p, answer)
  \/ PostTimeout(p)
  \/ Wake(p)
  \/ InsertExecute(p)
  \/ InsertCommit(p)
  \/ InsertFail(p)
  \/ Route(p)
  \/ \E answer \in Answers : RouterReturn(p, answer)
  \/ Respond(p)
  \/ RouteAction(p)
  \/ \E answer \in RouteAnswers : RouteActionReturn(p, answer)
  \/ EndpointHangs(p)

RunNext ==
  \/ \E d \in UploadInputs : RunUpload(0, d)
  \/ \E d \in JsonInputs : RunCli(1, d)
  \/ \E d \in PdfInputs : RunPdfCli(1, d)
  \/ \E intent \in RouteIntents, result \in RouteResults :
       RunRouteAction(1, intent, result)
  \/ \E p \in {0, 1} : Work(p)

RunSpec == Init /\ [][RunNext]_vars

\* ========================================================================
\* Claims
\* ========================================================================
\* the rows written by the run process p is serving (or served last)
RunRecords(p) == {i \in DOMAIN store : store[i].run = run[p]}

\* the run of p is over and its caller got the normal answer
Succeeded(p) == pc[p] = "done" /\ response[p].code = 200

\* action_router has returned in the run of p
Routed(p) == "status" \in DOMAIN router_result[p]

\* step 4 of the run of p swallowed an exception of insert_agent_trace
AgentInsertFailed(p) == Get(agent_result[p], "trace", "") = "sqlite3.Error"

\* C1: every pipeline run that reaches the router and returns adds exactly
\* one record to the audit store.
C1_OneRecordPerRun ==
  \A p \in Servers : Succeeded(p) => Cardinality(RunRecords(p)) = 1

\* C2: a failure of any insert_agent_trace call made during a pipeline run
\* is never swallowed: the run does not return the normal success answer.
C2_PersistenceFailureSurfaces ==
  \A p \in Servers : (pc[p] = "done" /\ AgentInsertFailed(p)) => response[p].code # 200

\* C3: when the outbound call of a dispatched action ends in a connection
\* failure or a non-2xx response, the router returns an outcome whose status
\* is error or failed and whose details carry the error.
DispatchFailures == {"non-2xx", "connection error"}

C3_RouterReportsDispatchFailure ==
  [][\A p \in Servers : \A a \in DispatchFailures :
       RouterReturn(p, a) =>
         /\ router_result'[p].status \in {"error", "failed"}
         /\ router_result'[p].details = a]_vars

\* C4: post_with_retries makes at most 3 attempts, stops at the first
\* successful one, waits 1s after the first failed attempt and 2s after the
\* second, does not wait after the last, and after 3 failures returns
\* (False, error) instead of raising.
RetryCalls(p) ==
  Cardinality({i \in DOMAIN calls[p] : calls[p][i].site = "post_with_retries"})

Pow2(n) == IF n = 0 THEN 1 ELSE IF n = 1 THEN 2 ELSE IF n = 2 THEN 4 ELSE 8

C4_Attempts ==
  \A p \in Servers :
    /\ attempt[p] <= 3
    /\ RetryCalls(p) = attempt[p]
    /\ attempt[p] >= 1 => sleeps[p] = [i \in 1..(attempt[p] - 1) |-> Pow2(i - 1)]
    /\ pc[p] = "sleep" => (attempt[p] < 3 /\ backoff[p] = Pow2(attempt[p] - 1))

C4_Returns ==
  \A p \in Servers :
    /\ PostReturn(p, "2xx") =>
         /\ pc'[p] = "ins_exec"
         /\ ins'[p].action_taken = "risk_alert_success"
    /\ \A a \in DispatchFailures \cup {"timeout"} :
         (IF a = "timeout" THEN PostTimeout(p) ELSE PostReturn(p, a)) =>
           IF attempt[p] = 3
           THEN pc'[p] = "ins_exec" /\ ins'[p].action_taken = risk_alert_failed(a)
           ELSE pc'[p] = "sleep"

C4_RetryPolicy == []C4_Attempts /\ [][C4_Returns]_vars

C4_Witness ==
  \E p \in Servers :
    /\ pc[p] = "ins_exec"
    /\ attempt[p] = 3
    /\ sleeps[p] = <<1, 2>>
    /\ ins[p].action_taken = "risk_alert_failed: timeout"

\* C5: every outbound call site has a bounded timeout, so a run whose
\* endpoint never responds still goes on to its audit write and returns: a
\* run that is not over can always take its next step.
C5_RunNeverStalls ==
  \A p \in Servers : pc[p] \notin {"idle", "done"} => ENABLED Step(p)

\* C6: under any interleaving of appends, no two audit records receive the
\* same id, and ids are strictly increasing in the order in which the store
\* commits the inserts.
C6_UniqueIncreasingIds ==
  /\ \A i, j \in DOMAIN store : i < j => store[i].id < store[j].id
  /\ \A p \in Procs : pc[p] = "ins_commit" =>
       /\ \A i \in DOMAIN store : store[i].id < ins[p].id
       /\ \A q \in Procs \ {p} : pc[q] = "ins_commit" => ins[q].id # ins[p].id

\* two overlapping runs have both committed, the later-started one first
C6_Witness ==
  \E i, j \in DOMAIN store : i < j /\ store[i].run > store[j].run

\* C7: after N appends to an empty store recent(N) returns exactly those N
\* records, most recent first; for any limit L, recent(L) returns at most L
\* records and they are the L most recently inserted ones.
Min(a, b) == IF a <= b THEN a ELSE b

\* the k rows committed last, the last one first
Newest(table, k) == [i \in 1..k |-> table[Len(table) + 1 - i]]

TableAction(intent, result) ==
  IF intent = "Complaint" /\ Get(result, "tone", "") = "angry"
       /\ Get(result, "urgency", "") = "high"
  THEN "POST /crm/escalate"
  ELSE IF intent = "Invoice" /\ Get(result, "risk_flag", FALSE)
  THEN "POST /risk_alert"
  ELSE IF intent = "Regulation" /\ Get(result, "flagged_terms", {}) # {}
  THEN "POST /compliance_alert"
  ELSE None

\* the URL action_router posted to in the run of p, None when it posted nothing
RouterCall(p) ==
  IF \E i \in DOMAIN calls[p] : calls[p][i].site = "action_router"
  THEN calls[p][CHOOSE i \in DOMAIN calls[p] : calls[p][i].site = "action_router"].url
  ELSE None

C8_DecisionTable ==
  \A p \in Servers :
    (pc[p] = "rpost" \/ Routed(p)) =>
      /\ RouterCall(p) = TableAction(business_intent[p], agent_result[p])
      /\ (Routed(p) /\ RouterCall(p) = None) => router_result[p].status = "skipped"

\* C9: a failure of any stage other than the audit store never ends the run
\* with an error response, and the run still records its audit record: a run
\* either returns its structured outcome with a record written, or failed in
\* the audit store (or in the front door saving the upload).
C9_StructuredOutcome ==
  \A p \in Servers :
    pc[p] = "done" =>
      \/ response[p].code = 200 /\ RunRecords(p) # {}
      \/ response[p].detail \in {"Internal Server Error", "Unable to save file"}

\* C10: on input that fails to parse as JSON the JSON agent returns
\* valid=false with exactly one anomaly, makes no outbound alert call, and
\* the audit record of the run has action_taken reflecting the parse error.
C10_ParseErrorRecorded ==
  \A p \in Servers :
    (Succeeded(p) /\ file_format[p] = "JSON" /\ doc[p].json.kind = "malformed"
       /\ ~AgentInsertFailed(p)) =>
      /\ agent_result[p].valid = FALSE
      /\ Len(agent_result[p].anomalies) = 1
      /\ calls[p] = <<>>
      /\ \A i \in RunRecords(p) : store[i].action_taken = "parse_error"

\* C11: for every parsed JSON input on which process_json produces a result,
\* valid is true iff the anomaly list is empty, every violated rule (a
\* required field missing, a present field that is not an instance of its
\* required type, a status outside the allowed set) contributes exactly one
\* anomaly, and the retrying alert call has been made, before the agent
\* persists and returns, iff the result is invalid.
Range(f) == {f[i] : i \in DOMAIN f}

RequiredType(f) == IF f = "id" THEN "int" ELSE "str"

\* bool is a subclass of int: json.loads gives True for true, an int instance
InstanceOf(t, expected) == t = expected \/ (t = "bool" /\ expected = "int")

Violations(data) ==
  {<<"missing", f>> : f \in {"id", "timestamp", "status"} \ DOMAIN data}
    \cup {<<"type", f>> :
            f \in {n \in DOMAIN data : ~InstanceOf(data[n].t, RequiredType(n))}}
    \cup {<<"status">> :
            f \in {n \in DOMAIN data \cap {"status"} :
                     data[n].v \notin {"OPEN", "CLOSED", "IN_PROGRESS"}}}

\* process_json is inside or past its insert_agent_trace
AtAgentInsert(p) == pc[p] \in {"ins_exec", "ins_commit"} /\ ret[p] = "agent"

JsonValidated(p) ==
  /\ doc[p].json.kind \in {"object", "array"}
  /\ AtAgentInsert(p) \/ "anomalies" \in DOMAIN agent_result[p]

JsonAgentResult(p) ==
  IF AtAgentInsert(p) THEN ins[p].agent_result ELSE agent_result[p]

AtPdfAgentInsert(p) == AtAgentInsert(p) /\ ins[p].file_type = "PDF"

RECURSIVE TableSum(_)
TableSum(items) ==
  IF items = <<>> THEN 0
  ELSE items[1].quantity * items[1].price + TableSum(Tail(items))

C12_TableTotalSupersedes ==
  \A p \in Procs :
    AtPdfAgentInsert(p) =>
      LET r == ins[p].agent_result
      IN  IF r.line_items # <<>>
          THEN r.invoice_total = TableSum(r.line_items)
          ELSE r.invoice_total = doc[p].pdf.total

\* C13: the audit store is append-only: across every step (an append, a
\* read, init_db run once or again, also on a table of the earlier schema
\* without the column file_type) every record that was in the table is still
\* there, at the same place, with the same id and the same value in every
\* column it had.
C13_AppendOnly ==
  [][\A i \in DOMAIN store :
       /\ i \in DOMAIN store'
       /\ \A c \in DOMAIN store[i] :
            c \in DOMAIN store'[i] /\ store'[i][c] = store[i][c]]_vars

\* a table of the earlier schema was migrated and then appended to
C13_Witness ==
  /\ Len(store) >= 3
  /\ "file_format" \in DOMAIN store[1]
  /\ store[1].file_type = NULL
  /\ store[3].file_type = "JSON"
  /\ rows # <<>>

\* C14: every ActionOutcome returned by a router (action_router of main.py,
\* route_action of action_router.py) has a status in {success, failed,
\* skipped, error}; a pipeline run that returns has produced one, with status
\* skipped when no action fired.
ActionStatuses == {"success", "failed", "skipped", "error"}

\* the router called in the run of p has returned its outcome
RouterReturned(p) ==
  /\ Routed(p)
  /\ caller[p] = "import" => (pc[p] = "done" /\ response[p].detail = "returned")

C14_OutcomeStatus ==
  \A p \in Procs :
    /\ RouterReturned(p) => router_result[p].status \in ActionStatuses
    /\ Succeeded(p) =>
         /\ Routed(p)
         /\ RouterCall(p) = None => router_result[p].status = "skipped"

\* C15: classify_intent returns exactly one intent by fixed priority: the
\* first of Invoice, RFQ, Complaint, Regulation, FraudRisk (which the code
\* spells "Fraud Risk") one of whose keywords occurs in the text in any
\* letter case, and Unknown when none does.
IntentRules ==
  << <<"Invoice", {"invoice"}>>,
     <<"RFQ", {"rfq", "quote"}>>,
     <<"Complaint", {"complaint", "issue"}>>,
     <<"Regulation", {"gdpr", "fda", "regulation"}>>,
     <<"Fraud Risk", {"fraud", "suspicious"}>> >>

\* the spellings of a keyword among the words of the texts
Spellings(k) ==
  {k} \cup (IF k = "invoice" THEN {"INVOICE"}
            ELSE IF k = "complaint" THEN {"Complaint"}
            ELSE IF k = "quote" THEN {"Quote"}
            ELSE IF k = "gdpr" THEN {"GDPR"}
            ELSE IF k = "fraud" THEN {"Fraud"}
            ELSE {})

RuleMatches(i, text) == \E k \in IntentRules[i][2] : Spellings(k) \cap text # {}

FirstMatch(text) ==
  IF \E i \in DOMAIN IntentRules : RuleMatches(i, text)
  THEN IntentRules[CHOOSE i \in DOMAIN IntentRules :
                     /\ RuleMatches(i, text)
                     /\ \A j \in 1..(i - 1) : ~RuleMatches(j, text)][1]
  ELSE "Unknown"

\* upload_file has classified the text of the upload
Classified(p) == caller[p] = "upload_file" /\ file_format[p] # ""

C15_IntentPriority ==
  \A p \in Servers :
    Classified(p) => business_intent[p] = FirstMatch(doc[p].words)

\* a text with INVOICE and Complaint was classified Invoice
C15_Witness ==
  \E p \in Servers :
    /\ Classified(p)
    /\ doc[p].words = {"INVOICE", "Complaint"}
    /\ business_intent[p] = "Invoice"

\* C16: a failure of the table extraction of a PDF never raises out of the
\* PDF agent: the agent goes on to persist and return a result with empty
\* line_items and, when text was extracted, the invoice_total of the regex
\* fallback over that text.
TablesFail(pdf) == ~pdf.readable \/ ~pdf.reopen

\* the PDF agent was entered in the run of p and has left its table pass
PastPdfAgent(p) ==
  /\ doc[p].ext = "pdf"
  /\ \/ caller[p] = "upload_file" /\ file_format[p] = "PDF" /\ pc[p] # "agent"
     \/ caller[p] = "__main__" /\ pc[p] # "pdf_cli"

\* the result of the PDF agent in the run of p, once the agent has built it
PdfResultBuilt(p) ==
  \/ AtPdfAgentInsert(p)
  \/ "line_items" \in DOMAIN agent_result[p]

PdfResult(p) ==
  IF AtPdfAgentInsert(p) THEN ins[p].agent_result ELSE agent_result[p]

C16_TableFailureDegrades ==
  \A p \in Procs :
    (PastPdfAgent(p) /\ TablesFail(doc[p].pdf)) =>
      /\ Get(agent_result[p], "error", "") = "Agent processing failed"
           => AgentInsertFailed(p)
      /\ PdfResultBuilt(p) =>
           /\ PdfResult(p).line_items = <<>>
           /\ (doc[p].pdf.readable /\ ~doc[p].pdf.blank) =>
                PdfResult(p).invoice_total = doc[p].pdf.total

\* the agent returned on a document with a total in its text and a table
\* that could not be extracted
C16_Witness ==
  \E p \in Procs :
    /\ pc[p] = "done"
    /\ ~doc[p].pdf.reopen
    /\ doc[p].pdf.items # <<>>
    /\ doc[p].pdf.total = 12000
    /\ "line_items" \in DOMAIN agent_result[p]
    /\ agent_result[p].invoice_total = 12000

\* C17: for every PDF pipeline run, the valid field of the agent result is
\* true iff the text extracted from the document is non-empty.
C17_ValidIffText ==
  \A p \in Servers :
    (caller[p] = "upload_file" /\ file_format[p] = "PDF"
       /\ "line_items" \in DOMAIN agent_result[p]) =>
      (agent_result[p].valid <=> ~doc[p].pdf.blank)

\* C18: the JSON agent never raises to its caller on malformed input: on
\* every raw input, also one that parses to a JSON value that is not an
\* object, process_json returns a result with valid = false and an anomaly
\* that describes the problem.
NotAnObject(json) == json.kind \in {"malformed", "array", "scalar"}

\* process_json raised TypeError to upload_file (which catches it) or to
\* __main__ (which dies of it)
ProcessJsonRaised(p) ==
  \/ Get(agent_result[p], "trace", "") = "TypeError"
  \/ response[p].detail = "TypeError"

C18_JsonNeverRaises ==
  \A p \in Procs :
    /\ ~ProcessJsonRaised(p)
    /\ (NotAnObject(doc[p].json) /\ "anomalies" \in DOMAIN agent_result[p]) =>
         (~agent_result[p].valid /\ agent_result[p].anomalies # <<>>)

\* C19: in every result of the PDF agent (process_pdf.py and pdf_agent.py),
\* as built, as persisted and as returned, risk_flag is true iff invoice_total
\* is strictly greater than 10000.
RiskRule(r) == r.risk_flag <=> (r.invoice_total > 10000)

C19_RiskFlagThreshold ==
  /\ \A p \in Procs : PdfResultBuilt(p) => RiskRule(PdfResult(p))
  /\ \A i \in DOMAIN store :
       "risk_flag" \in DOMAIN store[i].agent_result => RiskRule(store[i].agent_result)

\* a returned result whose invoice_total is exactly 10000 (two items at 5000,
\* no total in the text) and whose risk_flag is false
C19_Witness ==
  \E p \in Procs :
    /\ pc[p] = "done"
    /\ "line_items" \in DOMAIN agent_result[p]
    /\ agent_result[p].invoice_total = 10000
    /\ agent_result[p].line_items # <<>>
    /\ ~agent_result[p].risk_flag

\* C20: no connection to the audit store and no lock on it is held while a
\* retry backoff wait or an outbound call is in progress: a run that sleeps
\* between attempts or is blocked on the network is in no insert_agent_trace
\* call and holds no lock, and an append of another run only ever waits for a
\* run that is itself inside its commit.
Waiting(p) == pc[p] \in {"post", "sleep", "rpost", "rapost"}

C20_NoLockWhileWaiting ==
  /\ \A p \in Procs : Waiting(p) => (p \notin lock /\ ins[p] = NoIns)
  /\ \A q \in Procs :
       pc[q] = "ins_exec" => \A r \in lock : pc[r] = "ins_commit"

\* one run sleeps between attempts while another is inside its append
C20_Witness ==
  \E p, q \in Procs :
    /\ pc[p] = "sleep"
    /\ pc[q] = "ins_commit"
    /\ q \in lock

\* C21: in process_json on parsed input the trace is persisted only after
\* the alert dispatch has finished all its attempts, and the persisted
\* action_taken is "logged" iff the result is valid, "risk_alert_success" iff
\* the result is invalid and an attempt succeeded, and a "risk_alert_failed:
\* ..." value iff the result is invalid and all attempts failed.
JsonAgentRow(r) == r.file_type = "JSON" /\ r.filename[1] = 0

FailedText(a) ==
  IF a = "non-2xx" THEN "risk_alert_failed: non-2xx"
  ELSE IF a = "connection error" THEN "risk_alert_failed: connection error"
  ELSE "risk_alert_failed: timeout"

FailedTexts == {FailedText(a) : a \in DispatchFailures \cup {"timeout"}}

\* what is persisted agrees with the result, and nothing of the agent is
\* persisted or being persisted while the dispatch is going on
C21_Persisted ==
  /\ \A p \in Procs :
       pc[p] \in {"post", "sleep"} =>
         /\ ins[p] = NoIns
         /\ \A i \in RunRecords(p) : ~JsonAgentRow(store[i])
  /\ \A i \in DOMAIN store :
       (JsonAgentRow(store[i]) /\ store[i].action_taken # "parse_error") =>
         /\ store[i].action_taken = "logged" <=> store[i].agent_result.valid
         /\ ~store[i].agent_result.valid =>
              store[i].action_taken \in {"risk_alert_success"} \cup FailedTexts

\* each way out of the dispatch persists the matching action_taken; a failed
\* attempt that is not the last persists nothing
C21_Dispatch ==
  \A p \in Procs :
    /\ PostReturn(p, "2xx") =>
         (AtAgentInsert(p))' /\ ins'[p].action_taken = "risk_alert_success"
    /\ \A a \in DispatchFailures \cup {"timeout"} :
         (IF a = "timeout" THEN PostTimeout(p) ELSE PostReturn(p, a)) =>
           IF attempt[p] = 3
           THEN (AtAgentInsert(p))' /\ ins'[p].action_taken = FailedText(a)
           ELSE ins'[p] = NoIns /\ store' = store

\* C21: the two parts together
C21_PersistAfterDispatch == []C21_Persisted /\ [][C21_Dispatch]_vars

\* the alert failed once and then succeeded, and the trace says so
C21_Witness ==
  \E p \in Procs : \E i \in RunRecords(p) :
    /\ pc[p] = "done"
    /\ attempt[p] = 2
    /\ JsonAgentRow(store[i])
    /\ ~store[i].agent_result.valid
    /\ store[i].action_taken = "risk_alert_success"

\* C22: in upload_file the run's audit record is written after action_router
\* has returned and before the response is returned, and its action_taken is
\* the router outcome's action identifier when an action fired and "log_only"
\* when the outcome's action is absent (skipped or error).
AgentRow(r) == r.filename[1] = 0 \/ r.intent = "InvoiceAnalysis"

\* the records of the run of p that upload_file itself wrote (step 6)
DriverRecords(p) == {i \in RunRecords(p) : ~AgentRow(store[i])}

DriverAction(outcome) ==
  IF outcome.action = None THEN "log_only" ELSE outcome.action

\* C22: upload_file's record comes after the router and before the response,
\* with the router's action or "log_only"
C22_AuditAfterRouter ==
  \A p \in Servers :
    /\ pc[p] \in {"agent", "post", "sleep", "route", "rpost"} =>
         DriverRecords(p) = {}
    /\ (pc[p] \in {"ins_exec", "ins_commit"} /\ ret[p] = "agent") =>
         DriverRecords(p) = {}
    /\ (pc[p] \in {"ins_exec", "ins_commit"} /\ ret[p] = "final") =>
         /\ Routed(p)
         /\ response[p] = NoResponse
         /\ DriverRecords(p) = {}
         /\ ins[p].action_taken = DriverAction(router_result[p])
    /\ \A i \in DriverRecords(p) :
         /\ Routed(p)
         /\ store[i].action_taken = DriverAction(router_result[p])
    /\ (pc[p] = "respond" \/ Succeeded(p)) => Cardinality(DriverRecords(p)) = 1

\* a run whose router fired an action and a run whose router did not have
\* both been answered; the witness is the first kind
C22_Witness ==
  \E p \in Servers : \E i \in DriverRecords(p) :
    /\ Succeeded(p)
    /\ router_result[p].status = "success"
    /\ store[i].action_taken = router_result[p].action
    /\ store[i].action_taken # "log_only"

C22_WitnessSkipped ==
  \E p \in Servers : \E i \in DriverRecords(p) :
    /\ Succeeded(p)
    /\ router_result[p].action = None
    /\ store[i].action_taken = "log_only"

\* C23: every invocation of route_action writes exactly one trace record of
\* its own before returning, on all three paths (action dispatched, skipped,
\* dispatch raised), with action_taken the action identifier, "none" when no
\* action fired and "error" when the dispatch raised; the record is written
\* after the dispatch attempt and outside its exception handler.
RouteActionRecords(p) ==
  {i \in RunRecords(p) : store[i].filename = <<0, "[action_router]">>}

RouteActions == {"escalate_to_crm", "flag_high_risk_invoice", "compliance_alert"}

\* the path route_action took, read from the rule and from its action_log
RouteActionPath(p) ==
  IF route_action_rule(business_intent[p], agent_result[p]) = None THEN "skipped"
  ELSE IF router_result[p].status = "failed" THEN "raised"
  ELSE "dispatched"

RouteActionTaken(p) ==
  IF RouteActionPath(p) = "skipped" THEN "none"
  ELSE IF RouteActionPath(p) = "raised" THEN "error"
  ELSE route_action_rule(business_intent[p], agent_result[p])

\* C23: one record per returned invocation, written after the dispatch
\* attempt, with the action_taken of the path taken; a failure to write it is
\* not turned into an "error" outcome
C23_OneTracePerInvocation ==
  \A p \in Procs : caller[p] = "import" =>
    /\ pc[p] \in {"route_action", "rapost"} =>
         RouteActionRecords(p) = {} /\ ins[p] = NoIns
    /\ pc[p] \in {"ins_exec", "ins_commit"} =>
         /\ Routed(p)
         /\ RouteActionRecords(p) = {}
         /\ ins[p].action_taken = RouteActionTaken(p)
    /\ (pc[p] = "done" /\ response[p].detail = "returned") =>
         /\ Cardinality(RunRecords(p)) = 1
         /\ \E i \in RouteActionRecords(p) :
              /\ store[i].action_taken = RouteActionTaken(p)
              /\ store[i].action_taken \in RouteActions \cup {"none", "error"}
              /\ store[i].agent_result = router_result[p]
              /\ store[i].file_type = "system"
    /\ (pc[p] = "done" /\ response[p].detail = "Traceback") =>
         /\ RouteActionRecords(p) = {}
         /\ RouteActionPath(p) = "raised" => router_result[p].details # "sqlite3.Error"

\* route_action has returned after its dispatch raised, and its record says
\* "error"
C23_Witness ==
  \E p \in Procs : \E i \in RouteActionRecords(p) :
    /\ caller[p] = "import"
    /\ pc[p] = "done" /\ response[p].detail = "returned"
    /\ RouteActionPath(p) = "raised"
    /\ store[i].action_taken = "error"

C23_WitnessSkipped ==
  \E p \in Procs : \E i \in RouteActionRecords(p) :
    /\ caller[p] = "import"
    /\ pc[p] = "done" /\ response[p].detail = "returned"
    /\ RouteActionPath(p) = "skipped"
    /\ store[i].action_taken = "none"

C23_WitnessDispatched ==
  \E p \in Procs : \E i \in RouteActionRecords(p) :
    /\ caller[p] = "import"
    /\ pc[p] = "done" /\ response[p].detail = "returned"
    /\ RouteActionPath(p) = "dispatched"
    /\ store[i].action_taken \in RouteActions

====
